---------------------------- MODULE Spec2Model ----------------------------
(***************************************************************************)
(* A model of the fitness planner of src/test2.py: the three calculation   *)
(* functions validate_inputs, calculate_bmr_tdee and generate_plan, and    *)
(* the submit handler of app() with the session's history list.            *)
(*                                                                         *)
(* Numbers.  The source computes with Python floats (IEEE 754 doubles) and *)
(* so does the model: a float is a record [sign, mant, exp] of value       *)
(* sign * mant * 2^exp, mant an odd natural number below 2^53 (zero: mant  *)
(* 0, exp 0), and every operation rounds its exact result to 53 bits,      *)
(* ties to even.  mant is a sequence of limbs of 15 bits, least first,     *)
(* since a double's 53 bits do not fit a model integer.  Overflow,         *)
(* subnormals, infinities and NaN are outside the model: no value here     *)
(* comes near them.  age is an integer, as the form delivers it.           *)
(*                                                                         *)
(* Optional values.  A Python value that may be None is a sequence of      *)
(* length at most one: None is << >> and the value v is << v >>.           *)
(*                                                                         *)
(* Text.  name is the sequence of its characters' code points, so that     *)
(* strip() is computed rather than assumed.  Messages and plan texts are   *)
(* strings, character for character those of the source.                   *)
(***************************************************************************)
EXTENDS Integers, Sequences, FiniteSets, TLC

VARIABLES
    previous_calculations,  \* st.session_state.previous_calculations
    errors,                 \* the st.error messages of the last script run
    calls,                  \* the functions app() called in the last run
    prevFailed,             \* the run before the last one rendered an error
    call                    \* the last direct call of a calculation function

vars == <<previous_calculations, errors, calls, prevFailed, call>>

---------------------------------------------------------------------------
(* Bounds of the model *)

MaxHistory == 2

MaxNameLen == 2

---------------------------------------------------------------------------
(* Optional values *)

None == << >>

Some(v) == << v >>

Val(o) == o[1]

---------------------------------------------------------------------------
(* Natural numbers of any size: sequences of limbs, least significant     *)
(* first, without leading zero limbs; zero is the empty sequence.         *)

LimbBits == 15

Base == 2^LimbBits

RECURSIVE Trim(_)
Trim(a) ==
    IF a # << >> /\ a[Len(a)] = 0 THEN Trim(SubSeq(a, 1, Len(a) - 1)) ELSE a

RECURSIVE BigOfNat(_)
BigOfNat(n) == IF n = 0 THEN << >> ELSE << n % Base >> \o BigOfNat(n \div Base)

RECURSIVE NatOfBig(_)
NatOfBig(a) == IF a = << >> THEN 0 ELSE a[1] + Base * NatOfBig(Tail(a))

Limb(a) == IF a = << >> THEN 0 ELSE a[1]

Rest(a) == IF a = << >> THEN << >> ELSE Tail(a)

RECURSIVE BigAddC(_, _, _)
BigAddC(a, b, c) ==
    IF a = << >> /\ b = << >>
    THEN (IF c = 0 THEN << >> ELSE << c >>)
    ELSE LET x == Limb(a) + Limb(b) + c
         IN << x % Base >> \o BigAddC(Rest(a), Rest(b), x \div Base)

BigAdd(a, b) == BigAddC(a, b, 0)

\* a - b - c for a >= b + c.
RECURSIVE BigSubB(_, _, _)
BigSubB(a, b, c) ==
    IF a = << >> THEN << >>
    ELSE LET x == a[1] - Limb(b) - c
         IN << x % Base >> \o BigSubB(Tail(a), Rest(b), IF x < 0 THEN 1 ELSE 0)

BigSub(a, b) == Trim(BigSubB(a, b, 0))

RECURSIVE BigCmpTop(_, _)
BigCmpTop(a, b) ==
    IF a = << >> THEN 0
    ELSE IF a[Len(a)] < b[Len(b)] THEN -1
    ELSE IF a[Len(a)] > b[Len(b)] THEN 1
    ELSE BigCmpTop(SubSeq(a, 1, Len(a) - 1), SubSeq(b, 1, Len(b) - 1))

\* -1, 0 or 1 as a < b, a = b or a > b.
BigCmp(a, b) ==
    IF Len(a) < Len(b) THEN -1
    ELSE IF Len(a) > Len(b) THEN 1
    ELSE BigCmpTop(a, b)

RECURSIVE BigMulSmallC(_, _, _)
BigMulSmallC(a, d, c) ==
    IF a = << >> THEN (IF c = 0 THEN << >> ELSE << c >>)
    ELSE LET x == a[1] * d + c
         IN << x % Base >> \o BigMulSmallC(Tail(a), d, x \div Base)

\* a * d for 0 <= d <= Base.
BigMulSmall(a, d) == Trim(BigMulSmallC(a, d, 0))

RECURSIVE BigMul(_, _)
BigMul(a, b) ==
    IF a = << >> \/ b = << >> THEN << >>
    ELSE Trim(BigAdd(BigMulSmall(a, b[1]), << 0 >> \o BigMul(a, Tail(b))))

RECURSIVE BigDivStep(_, _, _)
BigDivStep(a, d, rem) ==
    IF a = << >> THEN [q |-> << >>, r |-> rem]
    ELSE LET cur == rem * Base + a[Len(a)]
             rest == BigDivStep(SubSeq(a, 1, Len(a) - 1), d, cur % d)
         IN [q |-> rest.q \o << cur \div d >>, r |-> rest.r]

\* Quotient and remainder of a by d, 0 < d <= Base.
BigDivSmall(a, d) ==
    LET x == BigDivStep(a, d, 0) IN [q |-> Trim(x.q), r |-> x.r]

\* a * 2^k.
BigShl(a, k) ==
    IF a = << >> THEN << >>
    ELSE [i \in 1..(k \div LimbBits) |-> 0] \o BigMulSmall(a, 2^(k % LimbBits))

\* floor(a / 2^k).
BigShr(a, k) ==
    IF k \div LimbBits >= Len(a) THEN << >>
    ELSE BigDivSmall(SubSeq(a, k \div LimbBits + 1, Len(a)),
                     2^(k % LimbBits)).q

RECURSIVE NatBits(_)
NatBits(x) == IF x = 0 THEN 0 ELSE 1 + NatBits(x \div 2)

BitLen(a) ==
    IF a = << >> THEN 0 ELSE LimbBits * (Len(a) - 1) + NatBits(a[Len(a)])

BigOdd(a) == a # << >> /\ a[1] % 2 = 1

RECURSIVE NatTrailingZeros(_)
NatTrailingZeros(x) == IF x % 2 = 1 THEN 0 ELSE 1 + NatTrailingZeros(x \div 2)

RECURSIVE TrailingZeros(_)
TrailingZeros(a) ==
    IF a[1] = 0 THEN LimbBits + TrailingZeros(Tail(a))
    ELSE NatTrailingZeros(a[1])

---------------------------------------------------------------------------
(* Python floats *)

Precision == 53

FZero(sign) == [sign |-> sign, mant |-> << >>, exp |-> 0]

\* The float of value sign * n * 2^e, for n of at most 53 bits.
Canon(sign, n, e) ==
    IF n = << >> THEN FZero(sign)
    ELSE LET tz == TrailingZeros(n)
         IN [sign |-> sign, mant |-> BigShr(n, tz), exp |-> e + tz]

\* n / 2^k rounded to the nearest integer, ties to even, for k >= 1;
\* inexact tells that n itself is the floor of a greater exact value.
RoundShr(n, k, inexact) ==
    LET r1 == BigShr(n, k - 1)
        q == BigShr(r1, 1)
        lost == inexact \/ BigShl(r1, k - 1) # n
    IN IF BigOdd(r1) /\ (lost \/ BigOdd(q)) THEN BigAdd(q, << 1 >>) ELSE q

\* sign * n * 2^e rounded to a float.
Round(sign, n, e, inexact) ==
    IF BitLen(n) <= Precision THEN Canon(sign, n, e)
    ELSE LET k == BitLen(n) - Precision
         IN Canon(sign, RoundShr(n, k, inexact), e + k)

\* float(i) for an int i (below 2^31 in absolute value).
FromInt(i) ==
    IF i < 0 THEN Canon(-1, BigOfNat(-i), 0) ELSE Canon(1, BigOfNat(i), 0)

IsZero(x) == x.mant = << >>

FNeg(x) == [x EXCEPT !.sign = -x.sign]

\* x * y
FMul(x, y) ==
    IF IsZero(x) \/ IsZero(y) THEN FZero(x.sign * y.sign)
    ELSE Round(x.sign * y.sign, BigMul(x.mant, y.mant), x.exp + y.exp, FALSE)

\* x + y
FAdd(x, y) ==
    IF IsZero(x) /\ IsZero(y)
    THEN FZero(IF x.sign = -1 /\ y.sign = -1 THEN -1 ELSE 1)
    ELSE IF IsZero(x) THEN y
    ELSE IF IsZero(y) THEN x
    ELSE LET e == IF x.exp < y.exp THEN x.exp ELSE y.exp
             a == BigShl(x.mant, x.exp - e)
             b == BigShl(y.mant, y.exp - e)
             c == BigCmp(a, b)
         IN IF x.sign = y.sign THEN Round(x.sign, BigAdd(a, b), e, FALSE)
            ELSE IF c = 0 THEN FZero(1)
            ELSE IF c > 0 THEN Round(x.sign, BigSub(a, b), e, FALSE)
            ELSE Round(y.sign, BigSub(b, a), e, FALSE)

\* x - y
FSub(x, y) == FAdd(x, FNeg(y))

GuardBits == 70

\* x / d for an int d with 0 < d < Base.
FDivSmall(x, d) ==
    IF IsZero(x) THEN x
    ELSE LET qr == BigDivSmall(BigShl(x.mant, GuardBits), d)
         IN Round(x.sign, qr.q, x.exp - GuardBits, qr.r # 0)

\* x < y, x <= y, x > 0, x <= 0
FLt(x, y) ==
    LET d == FSub(x, y) IN ~IsZero(d) /\ d.sign = -1

FLe(x, y) == ~FLt(y, x)

IsPositive(x) == ~IsZero(x) /\ x.sign = 1

\* The literal n/d (1.2 is Dec(12, 10)): the float nearest to it.
Dec(n, d) == FDivSmall(FromInt(n), d)

\* |x| rounded to an integer, ties to even.
RoundMagnitude(x) ==
    IF IsZero(x) THEN 0
    ELSE IF x.exp >= 0 THEN NatOfBig(BigShl(x.mant, x.exp))
    ELSE NatOfBig(RoundShr(x.mant, -x.exp, FALSE))

\* The format specification :.0f
Fmt0(x) == (IF x.sign = -1 THEN "-" ELSE "") \o ToString(RoundMagnitude(x))

---------------------------------------------------------------------------
(* validate_inputs *)

\* The characters str.strip() removes (str.isspace), as code points.
Whitespace ==
    (9..13) \cup (28..32) \cup {133, 160, 5760} \cup (8192..8202)
    \cup {8232, 8233, 8239, 8287, 12288}

RECURSIVE LStrip(_)
LStrip(s) ==
    IF s # << >> /\ Head(s) \in Whitespace THEN LStrip(Tail(s)) ELSE s

RECURSIVE RStrip(_)
RStrip(s) ==
    IF s # << >> /\ s[Len(s)] \in Whitespace
    THEN RStrip(SubSeq(s, 1, Len(s) - 1))
    ELSE s

Strip(s) == RStrip(LStrip(s))

MinAge == 1

MinHeight == 50

MinWeight == 30

\* validate_inputs with the height rule tried before the age rule.
validate_inputs_HeightFirst(name, age, height, weight) ==
    IF Strip(name) = << >> THEN Some("Please enter your name.")
    ELSE IF FLt(height, FromInt(MinHeight))
         THEN Some("Please enter a valid height (minimum 50 cm).")
    ELSE IF age < MinAge THEN Some("Please enter a valid age.")
    ELSE IF FLt(weight, FromInt(MinWeight))
         THEN Some("Please enter a valid weight (minimum 30 kg).")
    ELSE None

\* validate_inputs without its weight rule.
validate_inputs_NoWeightRule(name, age, height, weight) ==
    IF Strip(name) = << >> THEN Some("Please enter your name.")
    ELSE IF age < MinAge THEN Some("Please enter a valid age.")
    ELSE IF FLt(height, FromInt(MinHeight))
         THEN Some("Please enter a valid height (minimum 50 cm).")
    ELSE None

\* name a sequence of code points, age an int, height and weight floats.
validate_inputs(name, age, height, weight) ==
    IF Strip(name) = << >> THEN Some("Please enter your name.")
    ELSE IF age < MinAge THEN Some("Please enter a valid age.")
    ELSE IF FLt(height, FromInt(MinHeight))
         THEN Some("Please enter a valid height (minimum 50 cm).")
    ELSE IF FLt(weight, FromInt(MinWeight))
         THEN Some("Please enter a valid weight (minimum 30 kg).")
    ELSE None

---------------------------------------------------------------------------
(* calculate_bmr_tdee *)

\* The table of lines 31-37.
activity_multipliers ==
    [a \in {"Sedentary", "Lightly Active", "Moderately Active",
            "Very Active", "Extremely Active"} |->
        CASE a = "Sedentary" -> Dec(12, 10)
          [] a = "Lightly Active" -> Dec(1375, 1000)
          [] a = "Moderately Active" -> Dec(155, 100)
          [] a = "Very Active" -> Dec(1725, 1000)
          [] a = "Extremely Active" -> Dec(19, 10)]

\* Bmr with the Male constant in both branches.
Bmr_MaleConstant(weight, height, age, gender) ==
    FAdd(FSub(FAdd(FMul(FromInt(10), weight), FMul(Dec(625, 100), height)),
              FromInt(5 * age)),
         FromInt(5))

\* Lines 25-28: 10 * weight + 6.25 * height - 5 * age + 5 (or - 161), the
\* operations in Python's order, 5 * age an int product.
Bmr(weight, height, age, gender) ==
    IF gender = "Male"
    THEN FAdd(FSub(FAdd(FMul(FromInt(10), weight),
                        FMul(Dec(625, 100), height)),
                   FromInt(5 * age)),
              FromInt(5))
    ELSE FSub(FSub(FAdd(FMul(FromInt(10), weight),
                        FMul(Dec(625, 100), height)),
                   FromInt(5 * age)),
              FromInt(161))

\* The except clause of lines 50-52: the message is rendered, the pair is
\* (None, None).
CalcFailure(msg) ==
    [bmr |-> None, tdee |-> None,
     errors |-> << "Error in calculations: " \o msg >>]

\* calculate_bmr_tdee with the guard of line 45 written < instead of <=.
calculate_bmr_tdee_StrictGuard(weight, height, age, gender, activity_level) ==
    LET bmr == Bmr(weight, height, age, gender) IN
    IF activity_level \notin DOMAIN activity_multipliers
    THEN CalcFailure("Invalid activity level: " \o activity_level)
    ELSE LET tdee == FMul(bmr, activity_multipliers[activity_level])
         IN IF FLt(bmr, FromInt(0)) \/ FLt(tdee, FromInt(0))
            THEN CalcFailure("Invalid calculation result")
            ELSE [bmr |-> Some(bmr), tdee |-> Some(tdee), errors |-> << >>]

\* calculate_bmr_tdee without the guard of lines 45-46.
calculate_bmr_tdee_NoGuard(weight, height, age, gender, activity_level) ==
    LET bmr == Bmr(weight, height, age, gender) IN
    IF activity_level \notin DOMAIN activity_multipliers
    THEN CalcFailure("Invalid activity level: " \o activity_level)
    ELSE [bmr |-> Some(bmr),
          tdee |-> Some(FMul(bmr, activity_multipliers[activity_level])),
          errors |-> << >>]

\* weight and height floats, age an int.
calculate_bmr_tdee(weight, height, age, gender, activity_level) ==
    LET bmr == Bmr(weight, height, age, gender) IN
    IF activity_level \notin DOMAIN activity_multipliers
    THEN CalcFailure("Invalid activity level: " \o activity_level)
    ELSE LET tdee == FMul(bmr, activity_multipliers[activity_level])
         IN IF FLe(bmr, FromInt(0)) \/ FLe(tdee, FromInt(0))
            THEN CalcFailure("Invalid calculation result")
            ELSE [bmr |-> Some(bmr), tdee |-> Some(tdee), errors |-> << >>]

---------------------------------------------------------------------------
(* generate_plan *)

MinCalories == 1200

CalorieStep == 500

\* Python's max(a, b): a unless b is greater.
PyMax(a, b) == IF FLt(a, b) THEN b ELSE a

\* The macros dictionary of lines 64-68 (91-95, 120-124): the carbs are the
\* share carbs of the calories at 4 kcal a gram, the fats the share fats at
\* 9 kcal a gram.
Macros(protein_needs, calories, carbs, fats) ==
    [protein |-> protein_needs,
     carbs |-> FDivSmall(FMul(calories, carbs), 4),
     fats |-> FDivSmall(FMul(calories, fats), 9)]

\* The start of the f-string of lines 69-81 (96-108, 125-137), up to the
\* fats.
DailyTargets(calories, macros) ==
    "\n"
    \o "            Daily Targets:\n"
    \o "            - Calories: " \o Fmt0(calories) \o " kcal\n"
    \o "            - Protein: " \o Fmt0(macros.protein) \o "g\n"
    \o "            - Carbs: " \o Fmt0(macros.carbs) \o "g\n"
    \o "            - Fats: " \o Fmt0(macros.fats)

\* The end of the f-string of lines 69-81, after the fats.
WeightLossFocus ==
    "g\n"
    \o "            \n"
    \o "            Focus on:\n"
    \o "            - High protein foods (lean meat, fish, eggs)\n"
    \o "            - Fiber-rich vegetables\n"
    \o "            - Complex carbohydrates\n"
    \o "            - Limited processed foods\n"
    \o "            "

\* The string of lines 82-87.
WeightLossExercise ==
    "\n"
    \o "            Weekly Schedule:\n"
    \o "            - 3-4 days of moderate-intensity cardio (30-45 minutes)\n"
    \o "            - 2-3 days of strength training\n"
    \o "            - Include rest days for recovery\n"
    \o "            "

\* The end of the f-string of lines 96-108, after the fats.
MuscleGainFocus ==
    "g\n"
    \o "            \n"
    \o "            Focus on:\n"
    \o "            - High protein foods every 3-4 hours\n"
    \o "            - Complex carbohydrates\n"
    \o "            - Healthy fats\n"
    \o "            - Pre and post-workout nutrition\n"
    \o "            "

\* The string of lines 109-116.
MuscleGainExercise ==
    "\n"
    \o "            Weekly Schedule:\n"
    \o "            - 4-5 days of strength training\n"
    \o "            - Focus on compound exercises\n"
    \o "            - Progressive overload\n"
    \o "            - 1-2 days of light cardio\n"
    \o "            - Proper rest between sessions\n"
    \o "            "

\* The end of the f-string of lines 125-137, after the fats.
MaintenanceFocus ==
    "g\n"
    \o "            \n"
    \o "            Focus on:\n"
    \o "            - Balanced macro distribution\n"
    \o "            - Whole, unprocessed foods\n"
    \o "            - Regular meal timing\n"
    \o "            - Adequate hydration\n"
    \o "            "

\* The string of lines 138-144.
MaintenanceExercise ==
    "\n"
    \o "            Weekly Schedule:\n"
    \o "            - 3-4 days of strength training\n"
    \o "            - 2-3 days of moderate cardio\n"
    \o "            - Mix of activities for variety\n"
    \o "            - Active recovery days\n"
    \o "            "

\* The string of lines 148-154.
GeneralHealthDiet ==
    "\n"
    \o "            Focus on:\n"
    \o "            - Balanced, nutrient-dense meals\n"
    \o "            - Variety of fruits and vegetables\n"
    \o "            - Whole grains and lean proteins\n"
    \o "            - Mindful eating habits\n"
    \o "            "

\* The string of lines 155-161.
GeneralHealthExercise ==
    "\n"
    \o "            Weekly Schedule:\n"
    \o "            - Daily physical activity\n"
    \o "            - Mix of cardio and strength training\n"
    \o "            - Focus on enjoyable activities\n"
    \o "            - Stay consistent with routine\n"
    \o "            "

\* The result of generate_plan: the returned triple, the st.error messages
\* it rendered, and the branch of lines 57-146 that produced it.
Plan(calories, diet, exercise, branch) ==
    [calories |-> calories, diet_plan |-> diet, exercise_plan |-> exercise,
     errors |-> << >>, branch |-> branch]

\* What the except clause of lines 165-167 returns and renders, for an
\* exception of message msg.
ErrorFallback(tdee, msg) ==
    [calories |-> tdee, diet_plan |-> "Error generating diet plan.",
     exercise_plan |-> "Error generating exercise plan.",
     errors |-> << "Error generating plan: " \o msg >>, branch |-> "except"]

\* Lines 62-87 without the floor of line 63.
WeightLossPlan_NoFloor(tdee, protein_needs) ==
    LET calories == FSub(tdee, FromInt(CalorieStep))
        macros == Macros(protein_needs, calories, Dec(40, 100), Dec(25, 100))
    IN Plan(calories, DailyTargets(calories, macros) \o WeightLossFocus,
            WeightLossExercise, "Weight Loss")

\* Lines 62-87.
WeightLossPlan(tdee, protein_needs) ==
    LET calories == PyMax(FromInt(MinCalories),
                          FSub(tdee, FromInt(CalorieStep)))
        macros == Macros(protein_needs, calories, Dec(40, 100), Dec(25, 100))
    IN Plan(calories, DailyTargets(calories, macros) \o WeightLossFocus,
            WeightLossExercise, "Weight Loss")

\* Lines 89-116.
MuscleGainPlan(tdee, protein_needs) ==
    LET calories == FAdd(tdee, FromInt(CalorieStep))
        macros == Macros(protein_needs, calories, Dec(50, 100), Dec(25, 100))
    IN Plan(calories, DailyTargets(calories, macros) \o MuscleGainFocus,
            MuscleGainExercise, "Muscle Gain")

\* Lines 118-144.
MaintenancePlan(tdee, protein_needs) ==
    LET calories == tdee
        macros == Macros(protein_needs, calories, Dec(45, 100), Dec(30, 100))
    IN Plan(calories, DailyTargets(calories, macros) \o MaintenanceFocus,
            MaintenanceExercise, "Maintenance")

\* Lines 146-161.
GeneralHealthPlan(tdee) ==
    Plan(tdee, GeneralHealthDiet, GeneralHealthExercise, "else")

\* GoalPlan with General Health a branch of its own and any other goal an
\* error.
GoalPlan_StrictGoals(goals, tdee, weight) ==
    LET protein_needs == FMul(weight, Dec(22, 10)) IN
    IF goals = "Weight Loss" THEN WeightLossPlan(tdee, protein_needs)
    ELSE IF goals = "Muscle Gain" THEN MuscleGainPlan(tdee, protein_needs)
    ELSE IF goals = "Maintenance" THEN MaintenancePlan(tdee, protein_needs)
    ELSE IF goals = "General Health" THEN GeneralHealthPlan(tdee)
    ELSE ErrorFallback(tdee, "Invalid goal: " \o goals)

\* Lines 60-163: the goal branches, for a tdee that is a float; weight a
\* float.
GoalPlan(goals, tdee, weight) ==
    LET protein_needs == FMul(weight, Dec(22, 10)) IN
    IF goals = "Weight Loss" THEN WeightLossPlan(tdee, protein_needs)
    ELSE IF goals = "Muscle Gain" THEN MuscleGainPlan(tdee, protein_needs)
    ELSE IF goals = "Maintenance" THEN MaintenancePlan(tdee, protein_needs)
    ELSE GeneralHealthPlan(tdee)

\* Lines 57-58; the calories are the int 0.
Degraded ==
    Plan(FromInt(0), "Unable to generate diet plan.",
         "Unable to generate exercise plan.", "tdee is None")

\* generate_plan without the test of line 57: the arithmetic of the three
\* macro branches fails on None and the except clause answers with the
\* tdee it was given; the else branch hands None back as the calories.
generate_plan_NoNoneTest(goals, tdee, weight) ==
    IF tdee = None
    THEN IF goals \in {"Weight Loss", "Muscle Gain", "Maintenance"}
         THEN ErrorFallback(tdee, "unsupported operand type(s)")
         ELSE GeneralHealthPlan(tdee)
    ELSE GoalPlan(goals, Val(tdee), weight)

\* tdee is optional: None or a float.  The try body raises nothing on
\* floats, so the except clause of lines 165-167 is not entered.
generate_plan(goals, tdee, weight) ==
    IF tdee = None THEN Degraded ELSE GoalPlan(goals, Val(tdee), weight)

---------------------------------------------------------------------------
(* app: one run of the script *)

\* The values the widgets of lines 204-222 can deliver, sampled: the name
\* empty (the default), blank and non-blank; the greatest age, the least
\* height, the least and the greatest weight; the first and the last
\* activity level; every goal.
FormNames == { << >>, << 32 >>, << 74, 111 >> }

FormAges == {120}

FormGenders == {"Male", "Female"}

FormHeights == { Dec(500, 10) }

FormWeights == { Dec(300, 10), Dec(2000, 10) }

FormActivityLevels == {"Sedentary", "Extremely Active"}

FormGoals == {"Weight Loss", "Muscle Gain", "Maintenance", "General Health"}

\* datetime.now().strftime("%Y-%m-%d %H:%M:%S") of line 246.
Timestamps == {"2026-01-01 10:00:00"}

\* The dictionary of lines 245-252.
Calculation(timestamp, name, bmr, tdee, goals, calories) ==
    [timestamp |-> timestamp, name |-> name, bmr |-> bmr, tdee |-> tdee,
     goal |-> goals, calories |-> calories]

\* app without the return of line 235: a validation error is rendered and
\* the calculation goes on.
app_NoReturn(name, age, gender, height, weight, activity_level, goals, now) ==
    LET error_message == validate_inputs(name, age, height, weight)
        shown == IF error_message # None /\ Val(error_message) # ""
                 THEN << Val(error_message) >> ELSE << >>
        r == calculate_bmr_tdee(weight, height, age, gender, activity_level)
    IN IF r.bmr # None /\ r.tdee # None
       THEN LET p == generate_plan(goals, r.tdee, weight)
            IN [append |-> Some(Calculation(now, name, Val(r.bmr),
                                Val(r.tdee), goals, p.calories)),
                errors |-> shown \o r.errors \o p.errors,
                calls |-> << "validate_inputs", "calculate_bmr_tdee",
                             "generate_plan" >>]
       ELSE [append |-> None, errors |-> shown \o r.errors,
             calls |-> << "validate_inputs", "calculate_bmr_tdee" >>]

\* The outcome of the body of `if submit_button:` (lines 230-253): the
\* record to append, if any, the messages rendered and the calls made.
app(name, age, gender, height, weight, activity_level, goals, now) ==
    LET error_message == validate_inputs(name, age, height, weight) IN
    IF error_message # None /\ Val(error_message) # ""
    THEN [append |-> None, errors |-> << Val(error_message) >>,
          calls |-> << "validate_inputs" >>]
    ELSE LET r == calculate_bmr_tdee(weight, height, age, gender,
                                      activity_level)
         IN IF r.bmr # None /\ r.tdee # None
            THEN LET p == generate_plan(goals, r.tdee, weight)
                 IN [append |-> Some(Calculation(now, name, Val(r.bmr),
                                     Val(r.tdee), goals, p.calories)),
                     errors |-> r.errors \o p.errors,
                     calls |-> << "validate_inputs", "calculate_bmr_tdee",
                                  "generate_plan" >>]
            ELSE [append |-> None, errors |-> r.errors,
                  calls |-> << "validate_inputs", "calculate_bmr_tdee" >>]

\* The submissions the form can make, and what app does on each.
FormInputs ==
    FormNames \X FormAges \X FormGenders \X FormHeights \X FormWeights
    \X FormActivityLevels \X FormGoals \X Timestamps

Submissions ==
    { [input |-> i,
       outcome |-> app(i[1], i[2], i[3], i[4], i[5], i[6], i[7], i[8])] :
        i \in FormInputs }

\* Submit with line 7 run unconditionally: every run starts from an empty
\* list.
Submit_ResetsList ==
    \E s \in Submissions :
        LET out == s.outcome
        IN /\ previous_calculations' =
                IF out.append # None THEN << Val(out.append) >> ELSE << >>
           /\ errors' = out.errors
           /\ calls' = out.calls
           /\ prevFailed' = (errors # << >>)
           /\ UNCHANGED call

\* The form is submitted: the script runs with submit_button true.  Lines
\* 6-7 leave the existing list alone; line 253 appends to it.
Submit ==
    \E s \in Submissions :
        LET out == s.outcome
        IN /\ out.append # None => Len(previous_calculations) < MaxHistory
           /\ previous_calculations' =
                IF out.append # None
                THEN Append(previous_calculations, Val(out.append))
                ELSE previous_calculations
           /\ errors' = out.errors
           /\ calls' = out.calls
           /\ prevFailed' = (errors # << >>)
           /\ UNCHANGED call

\* The script runs again without a submission (any other interaction):
\* nothing of lines 230-304 runs and the list is kept.
Rerun ==
    /\ previous_calculations' = previous_calculations
    /\ errors' = << >>
    /\ calls' = << >>
    /\ prevFailed' = (errors # << >>)
    /\ UNCHANGED call

NoCall == [fn |-> "none"]

\* The state after the first run of the script in a new session (line 7).
Init ==
    /\ previous_calculations = << >>
    /\ errors = << >>
    /\ calls = << >>
    /\ prevFailed = FALSE
    /\ call = NoCall

Next == Submit \/ Rerun

Spec == Init /\ [][Next]_vars

---------------------------------------------------------------------------
(* The calculation functions called directly *)

\* A space, the ideographic space U+3000 (white space outside ASCII), the
\* zero width space U+200B (not white space for str.strip) and the letter J.
Chars == {32, 12288, 8203, 74}

Names == UNION { [1..k -> Chars] : k \in 0..MaxNameLen }

\* Ages around the bounds of validate_inputs and of the form, and around
\* the ages at which the bmr of a small body changes sign.
Ages == {0, 1, 25, 30, 90, 91, 120, 121, 123, 124, 350, 383}

\* Tenths of a cm and of a kg, below, at and above the validation minima;
\* 50.4 cm and 30 kg give a Male of 124 a bmr of 0; 257.6 cm and 30 kg give
\* a Male of 383 a bmr of 0 in exact arithmetic and not in floats.
HeightTenths == {480, 499, 500, 504, 1650, 1750, 2576}

WeightTenths == {290, 299, 300, 301, 475, 600, 700}

Heights == { Dec(t, 10) : t \in HeightTenths }

Weights == { Dec(t, 10) : t \in WeightTenths }

Genders == {"Male", "Female", "Other"}

ActivityLevels == DOMAIN activity_multipliers \cup {"Couch Potato", ""}

Goals == FormGoals \cup {"Toning", ""}

\* None, and floats: zero, below and above the Weight Loss floor, at the
\* floor's edge (1700) and next to it, a fraction, a negative, and two
\* results of a float product that is not exact (1.5 * 1.2, 17.5 * 1.9).
Tdees ==
    {None, Some(FromInt(0)), Some(FromInt(1000)), Some(FromInt(1700)),
     Some(Dec(17000001, 10000)), Some(FromInt(2500)), Some(Dec(20925, 10)),
     Some(FromInt(-600)), Some(FMul(Dec(15, 10), Dec(12, 10))),
     Some(FMul(Dec(175, 10), Dec(19, 10)))}

Pending(fn, args) ==
    [fn |-> fn, args |-> args, returned |-> FALSE, ret |-> None]

FnInit ==
    /\ previous_calculations = << >>
    /\ errors = << >>
    /\ calls = << >>
    /\ prevFailed = FALSE
    /\ \/ \E name \in Names, age \in Ages, height \in Heights,
             weight \in Weights :
              call = Pending("validate_inputs", <<name, age, height, weight>>)
       \/ \E weight \in Weights, height \in Heights, age \in Ages,
             gender \in Genders, activity_level \in ActivityLevels :
              call = Pending("calculate_bmr_tdee",
                             <<weight, height, age, gender, activity_level>>)
       \/ \E goals \in Goals, tdee \in Tdees, weight \in Weights :
              call = Pending("generate_plan", <<goals, tdee, weight>>)

Return(v) == [call EXCEPT !.returned = TRUE, !.ret = v]

CallValidateInputs ==
    /\ call.fn = "validate_inputs" /\ ~call.returned
    /\ call' = Return(validate_inputs(call.args[1], call.args[2],
                                      call.args[3], call.args[4]))
    /\ UNCHANGED <<previous_calculations, errors, calls, prevFailed>>

CallCalculateBmrTdee ==
    /\ call.fn = "calculate_bmr_tdee" /\ ~call.returned
    /\ call' = Return(calculate_bmr_tdee(call.args[1], call.args[2],
                          call.args[3], call.args[4], call.args[5]))
    /\ UNCHANGED <<previous_calculations, errors, calls, prevFailed>>

CallGeneratePlan ==
    /\ call.fn = "generate_plan" /\ ~call.returned
    /\ call' = Return(generate_plan(call.args[1], call.args[2], call.args[3]))
    /\ UNCHANGED <<previous_calculations, errors, calls, prevFailed>>

FnNext == CallValidateInputs \/ CallCalculateBmrTdee \/ CallGeneratePlan

SpecFn == FnInit /\ [][FnNext]_vars

---------------------------------------------------------------------------
(* The claims.  What the specification expects is written here from its own *)
(* words, in the arithmetic of the program (floats), and compared with what  *)
(* the functions above return.                                               *)

Returned(fn) == call.fn = fn /\ call.returned

Range(seq) == { seq[i] : i \in 1..Len(seq) }

\* 10*weight + 6.25*height - 5*age + 5 (Male) or - 161 (Female).
ExpectedBmr(weight, height, age, gender) ==
    LET base == FSub(FAdd(FMul(FromInt(10), weight),
                          FMul(Dec(625, 100), height)),
                     FromInt(5 * age))
    IN IF gender = "Male" THEN FAdd(base, FromInt(5))
       ELSE FSub(base, FromInt(161))

\* The fixed multipliers 1.2, 1.375, 1.55, 1.725 and 1.9.
ExpectedMultiplier(activity_level) ==
    CASE activity_level = "Sedentary" -> Dec(12, 10)
      [] activity_level = "Lightly Active" -> Dec(1375, 1000)
      [] activity_level = "Moderately Active" -> Dec(155, 100)
      [] activity_level = "Very Active" -> Dec(1725, 1000)
      [] activity_level = "Extremely Active" -> Dec(19, 10)

InTable(activity_level) ==
    activity_level \in {"Sedentary", "Lightly Active", "Moderately Active",
                        "Very Active", "Extremely Active"}

\* The goal policy: max(1200, tdee - 500), tdee + 500, or tdee.
ExpectedCalories(goal, tdee) ==
    IF goal = "Weight Loss"
    THEN (IF FLt(FromInt(1200), FSub(tdee, FromInt(500)))
          THEN FSub(tdee, FromInt(500))
          ELSE FromInt(1200))
    ELSE IF goal = "Muscle Gain" THEN FAdd(tdee, FromInt(500))
    ELSE tdee

AllCalls == << "validate_inputs", "calculate_bmr_tdee", "generate_plan" >>

\* C1: a step of the session keeps the history it found as a prefix of the
\* history it leaves, adds at most one record, at the end, and adds one
\* exactly when it is a submission that rendered no error (validation and
\* calculation both succeeded).
C1_Step ==
    LET before == previous_calculations
        after == previous_calculations'
    IN /\ Len(after) >= Len(before)
       /\ SubSeq(after, 1, Len(before)) = before
       /\ Len(after) <= Len(before) + 1
       /\ (Len(after) = Len(before) + 1)
            <=> (calls' = AllCalls /\ errors' = << >>)

\* C1: every step of a session is such a step: the history is append-only,
\* in submission order, one record per successful submission.
C1_HistoryAppendOnly == [][C1_Step]_vars

C1_Witness ==
    /\ Len(previous_calculations) = 2
    /\ previous_calculations[1].goal = "Muscle Gain"
    /\ previous_calculations[2].goal = "Weight Loss"
    /\ prevFailed

ValidationMessages ==
    {"Please enter your name.", "Please enter a valid age.",
     "Please enter a valid height (minimum 50 cm).",
     "Please enter a valid weight (minimum 30 kg)."}

CalculationMessages ==
    {"Error in calculations: Invalid calculation result"}
    \cup {"Error in calculations: Invalid activity level: " \o a :
            a \in FormActivityLevels}

C2_Step ==
    calls' # << >> =>
        /\ Len(previous_calculations') = Len(previous_calculations)
             => errors' # << >>
        /\ errors' # << >> =>
             /\ Len(errors') = 1
             /\ errors'[1] \in ValidationMessages \cup CalculationMessages
             /\ previous_calculations' = previous_calculations
             /\ "generate_plan" \notin Range(calls')
             /\ errors'[1] \in ValidationMessages
                  => calls' = << "validate_inputs" >>

SubmitSucceeds ==
    /\ Submit
    /\ errors' = << >>
    /\ previous_calculations' # previous_calculations

C2_Usable ==
    (errors # << >> /\ Len(previous_calculations) < MaxHistory)
        => ENABLED SubmitSucceeds

\* C2: a submission that fails renders exactly one readable message, calls
\* no generate_plan and leaves the history as it was; after a validation
\* message calculate_bmr_tdee was not called either; and from a state that
\* shows an error a submission that succeeds is still possible.
C2_ErrorsStopTheFlow == [][C2_Step]_vars /\ []C2_Usable

C2_Witness ==
    /\ prevFailed
    /\ errors = << >>
    /\ calls = AllCalls
    /\ Len(previous_calculations) = 2

\* C3: validate_inputs returns the message of the first failing rule in the
\* order name, age, height, weight, and None exactly when all four hold.
C3_FirstFailingRule ==
    Returned("validate_inputs") =>
        LET name == call.args[1]
            age == call.args[2]
            height == call.args[3]
            weight == call.args[4]
            blank == \A i \in 1..Len(name) : name[i] \in Whitespace
            short == FLt(height, FromInt(50))
            light == FLt(weight, FromInt(30))
        IN /\ call.ret =
                IF blank THEN << "Please enter your name." >>
                ELSE IF age < 1 THEN << "Please enter a valid age." >>
                ELSE IF short
                THEN << "Please enter a valid height (minimum 50 cm)." >>
                ELSE IF light
                THEN << "Please enter a valid weight (minimum 30 kg)." >>
                ELSE << >>
           /\ (call.ret = << >>)
                <=> (~blank /\ age >= 1 /\ ~short /\ ~light)

C3_Witness ==
    /\ Returned("validate_inputs")
    /\ call.args = << << 12288, 74 >>, 0, Dec(499, 10), Dec(299, 10) >>
    /\ call.ret = << "Please enter a valid age." >>

\* C4: calculate_bmr_tdee fails exactly when the activity level is not in
\* the table or bmr <= 0 or tdee <= 0; a failure is (None, None), a success
\* is two positive numbers, and an unknown activity level is the failure
\* signalled when both causes apply.
C4_FailureIsNoneNone ==
    Returned("calculate_bmr_tdee") =>
        LET a == call.args
            r == call.ret
            bmr == ExpectedBmr(a[1], a[2], a[3],
                               IF a[4] = "Male" THEN "Male" ELSE "Female")
            fails == \/ ~InTable(a[5])
                     \/ ~IsPositive(bmr)
                     \/ ~IsPositive(FMul(bmr, ExpectedMultiplier(a[5])))
        IN /\ (r.bmr = None) <=> fails
           /\ (r.tdee = None) <=> fails
           /\ ~fails => (/\ IsPositive(Val(r.bmr))
                         /\ IsPositive(Val(r.tdee))
                         /\ r.errors = << >>)
           /\ ~InTable(a[5]) =>
                r.errors =
                  << "Error in calculations: Invalid activity level: " \o a[5] >>
           /\ (InTable(a[5]) /\ fails) =>
                r.errors = << "Error in calculations: Invalid calculation result" >>

C4_Witness ==
    /\ Returned("calculate_bmr_tdee")
    /\ call.args = << Dec(300, 10), Dec(500, 10), 124, "Female",
                      "Couch Potato" >>
    /\ call.ret.bmr = None /\ call.ret.tdee = None

Validated(a) ==
    /\ validate_inputs(<< 74 >>, a[3], a[2], a[1]) = None
    /\ a[4] \in {"Male", "Female"}
    /\ InTable(a[5])

\* C5 as stated: after successful validation, with gender Male or Female
\* and an activity level of the table, calculate_bmr_tdee never fails.
C5_GuardUnreachable ==
    (Returned("calculate_bmr_tdee") /\ Validated(call.args))
        => (call.ret.bmr # None /\ call.ret.tdee # None)

\* C5 as amended: the same, for ages up to 90 (Female) and up to 123
\* (Male); beyond them the least accepted height and weight give a bmr
\* that is not positive.
C5_GuardUnreachableUpTo90 ==
    (/\ Returned("calculate_bmr_tdee")
     /\ Validated(call.args)
     /\ call.args[3] <= (IF call.args[4] = "Female" THEN 90 ELSE 123))
        => (/\ call.ret.bmr # None
            /\ call.ret.tdee # None
            /\ call.ret.errors = << >>)

C5_Witness ==
    /\ Returned("calculate_bmr_tdee")
    /\ call.args = << Dec(300, 10), Dec(500, 10), 90, "Female", "Sedentary" >>
    /\ call.ret.bmr = Some(Dec(15, 10))

C6_Holds(male, female) ==
    (/\ Returned("calculate_bmr_tdee")
     /\ call.ret.bmr # None
     /\ call.args[4] \in {"Male", "Female"}) =>
        LET a == call.args
            bmr == Val(call.ret.bmr)
            tdee == Val(call.ret.tdee)
        IN /\ bmr = ExpectedBmr(a[1], a[2], a[3], a[4])
           /\ tdee = FMul(bmr, ExpectedMultiplier(a[5]))
           /\ (/\ a[1] = Dec(700, 10) /\ a[2] = Dec(1750, 10)
               /\ a[3] = 30 /\ a[4] = "Male")
                => bmr = male
           /\ (/\ a[1] = Dec(600, 10) /\ a[2] = Dec(1650, 10)
               /\ a[3] = 25 /\ a[4] = "Female")
                => bmr = female

\* C6 as stated: on success bmr is the Mifflin-St Jeor value of the gender
\* and tdee is bmr times the fixed multiplier of the activity level; (Male,
\* 70 kg, 175 cm, 30 y) gives bmr 1743.75 and (Female, 60 kg, 165 cm, 25 y)
\* gives bmr 1427.25.
C6_FormulaAsStated == C6_Holds(Dec(174375, 100), Dec(142725, 100))

\* C6 as amended: the same formulas, evaluated in floats, whose values for
\* the two examples are 1648.75 and 1345.25.
C6_Formula == C6_Holds(Dec(164875, 100), Dec(134525, 100))

C6_Witness ==
    /\ Returned("calculate_bmr_tdee")
    /\ call.args = << Dec(600, 10), Dec(1650, 10), 25, "Female",
                      "Very Active" >>
    /\ call.ret.bmr = Some(Dec(134525, 100))
    /\ call.ret.tdee = Some(FMul(Dec(134525, 100), Dec(1725, 1000)))

\* C7: for a tdee that is not None the calories are max(1200, tdee - 500)
\* for Weight Loss, tdee + 500 for Muscle Gain, and tdee for Maintenance
\* and General Health, whatever the weight.
C7_CaloriePolicy ==
    (/\ Returned("generate_plan")
     /\ call.args[2] # None
     /\ call.args[1] \in FormGoals) =>
        LET goal == call.args[1]
            tdee == Val(call.args[2])
            calories == call.ret.calories
        IN /\ calories = ExpectedCalories(goal, tdee)
           /\ goal = "Weight Loss" => FLe(FromInt(1200), calories)
           /\ (goal = "Weight Loss" /\ tdee = FromInt(1000))
                => calories = FromInt(1200)
           /\ (goal = "Weight Loss" /\ tdee = FromInt(2500))
                => calories = FromInt(2000)

C7_Witness ==
    /\ Returned("generate_plan")
    /\ call.args[1] = "Weight Loss"
    /\ call.args[2] = Some(FromInt(1000))
    /\ call.ret.calories = FromInt(1200)

\* C8: a goal other than Weight Loss, Muscle Gain and Maintenance, with a
\* tdee that is not None, gets what General Health gets: calories = tdee,
\* the General Health texts, and no error.
C8_UnknownGoalIsGeneralHealth ==
    (/\ Returned("generate_plan")
     /\ call.args[2] # None
     /\ call.args[1] \notin {"Weight Loss", "Muscle Gain", "Maintenance"}) =>
        /\ call.ret.errors = << >>
        /\ call.ret.diet_plan # "Error generating diet plan."
        /\ call.ret.exercise_plan # "Error generating exercise plan."
        /\ call.ret.calories = Val(call.args[2])
        /\ call.ret.diet_plan = GeneralHealthDiet
        /\ call.ret.exercise_plan = GeneralHealthExercise
        /\ call.ret = generate_plan("General Health", call.args[2],
                                    call.args[3])

C8_Witness ==
    /\ Returned("generate_plan")
    /\ call.args[1] = "Toning"
    /\ call.args[2] = Some(FromInt(2500))
    /\ call.ret.calories = FromInt(2500)

\* C9: with tdee None generate_plan returns (0, "Unable to generate diet
\* plan.", "Unable to generate exercise plan.") for every goal and weight,
\* renders no error and enters no goal branch.
C9_DegradedResult ==
    (Returned("generate_plan") /\ call.args[2] = None) =>
        /\ call.ret.diet_plan = "Unable to generate diet plan."
        /\ call.ret.exercise_plan = "Unable to generate exercise plan."
        /\ call.ret.errors = << >>
        /\ call.ret.branch = "tdee is None"
        /\ call.ret.calories = FromInt(0)

C9_Witness ==
    /\ Returned("generate_plan")
    /\ call.args[1] = "Toning"
    /\ call.args[2] = None
    /\ call.ret.calories = FromInt(0)

\* C10: every record of the history has bmr, tdee and calories positive and
\* its calories are the goal policy applied to its own tdee; in particular
\* no record holds the zero calories of the degraded result.
C10_RecordsPositive ==
    \A i \in 1..Len(previous_calculations) :
        LET rec == previous_calculations[i]
        IN /\ IsPositive(rec.bmr)
           /\ IsPositive(rec.tdee)
           /\ IsPositive(rec.calories)
           /\ rec.calories = ExpectedCalories(rec.goal, rec.tdee)

C10_Witness ==
    \E i \in 1..Len(previous_calculations) :
        LET rec == previous_calculations[i]
        IN /\ rec.goal = "Weight Loss"
           /\ FLt(rec.tdee, FromInt(1700))
           /\ rec.calories = FromInt(1200)

=============================================================================
